---------------------------- MODULE Spec2Model ----------------------------
(***************************************************************************)
(* The configuration lifecycle of package config (cmd/syncthing/usage.go): *)
(* Load / New, the normalizer prepare with its migration chain             *)
(* convertV1V2 .. convertV4V5, the atomic Save, and ChangeRequiresRestart.  *)
(*                                                                         *)
(* Conventions.  A Go slice is a sequence, nil and empty alike.  A device  *)
(* identifier is a natural number, DeviceID.Compare is <.  A folder        *)
(* identifier is a sequence of tokens: "" is <<>>, "a" is <<"a">> and      *)
(* fmt.Sprintf("%s~%d", id, n) is Append(id, n), so "a~2" is <<"a", 2>>.   *)
(* A password is a sequence of characters; a hash starts with "$".          *)
(***************************************************************************)
EXTENDS Integers, Sequences, FiniteSets, TLC

VARIABLES
    fs,           \* the file system: path -> file
    myID,         \* the local identity handed to New and Load
    cfg,          \* the Configuration being loaded, prepared, saved
    pc,           \* position of the program
    fd,           \* the path of the file Save holds open ("" when none)
    saveErr,      \* what the current or last Save call returns ("none": nil)
    published,    \* ConfigSaved events logged by the current or last Save call
    replaced,     \* whether the rename of the current or last Save call succeeded
    prevReal,     \* the file at Location when the current or last Save call began
    loaded,       \* the document the last Load decoded (NoDoc after New)
    entry,        \* cfg as the migration chain of the current prepare was entered
    steps,        \* source versions of the migration steps the current prepare ran
    chain,        \* cfg as the migration chain of the current prepare was left
    rounds,       \* successful Save calls that were followed by a Load
    prevCfg,      \* cfg as it was saved by the Save before the last Load
    bcryptFailed, \* whether bcrypt.GenerateFromPassword ever returned an error
    from,         \* first argument of ChangeRequiresRestart
    to,           \* second argument of ChangeRequiresRestart
    restart       \* its result: "unset", "true" or "false"

vars == <<fs, myID, cfg, pc, fd, saveErr, published, replaced, prevReal, loaded, entry, steps, chain, rounds, prevCfg, bcryptFailed, from, to, restart>>

-----------------------------------------------------------------------------
(* Bounds *)

MaxFolders == 2

\* Save/Load rounds a run may take: one more than the folders a document holds.
MaxRounds == MaxFolders + 1

-----------------------------------------------------------------------------
(* Helpers *)

Range(s) == {s[i] : i \in DOMAIN s}

SeqUpTo(n, S) == UNION {[1..k -> S] : k \in 0..n}

IDsOf(devices) == {devices[i].DeviceID : i \in DOMAIN devices}

Count(devices, id) == Cardinality({i \in DOMAIN devices : devices[i].DeviceID = id})

Orders(S) == {s \in [1..Cardinality(S) -> S] : Range(s) = S}

-----------------------------------------------------------------------------
(* Records of the data model *)

FolderDevice(id, name, addrs) == [DeviceID |-> id, Deprecated_Name |-> name, Deprecated_Addresses |-> addrs]

Device(id, name, addrs, comp) == [DeviceID |-> id, Name |-> name, Addresses |-> addrs, Compression |-> comp]

ZeroFolder == [ID |-> <<>>, Path |-> "", Devices |-> <<>>, ReadOnly |-> FALSE, RescanIntervalS |-> 0, Invalid |-> "", Deprecated_Directory |-> "", Deprecated_Nodes |-> <<>>]

DefaultGUI == [Enabled |-> TRUE, Address |-> "127.0.0.1:8080", Password |-> <<>>]

DefaultOptions == [ListenAddress |-> <<>>, GlobalAnnServer |-> "announce.syncthing.net:22026", URAccepted |-> 0, Deprecated_RescanIntervalS |-> 0, Deprecated_UREnabled |-> FALSE, Deprecated_URDeclined |-> FALSE, Deprecated_ReadOnly |-> FALSE, Deprecated_GUIEnabled |-> FALSE, Deprecated_GUIAddress |-> ""]

CurrentVersion == 5

\* The Configuration after setDefaults(&cfg), setDefaults(&cfg.Options), setDefaults(&cfg.GUI).
DefaultConfiguration == [Version |-> CurrentVersion, Folders |-> <<>>, Devices |-> <<>>, GUI |-> DefaultGUI, Options |-> DefaultOptions, Deprecated_Repositories |-> <<>>, Deprecated_Nodes |-> <<>>]

NoCfg == [Version |-> 0]

NoDoc == [Version |-> 0]

NoGUI == [Absent |-> TRUE]

Hostname == "host"

Location == "config.xml"

\* The temporary file without its suffix.
TmpLocation_NoSuffix == "config.xml"

TmpLocation == "config.xml.tmp"

Paths == {Location, TmpLocation}

NoFile == [written |-> "absent", doc |-> NoDoc]

File(w, d) == [written |-> w, doc |-> d]

-----------------------------------------------------------------------------
(* sort.Sort over DeviceConfigurationList and FolderDeviceConfigurationList.  *)
(* Both order by DeviceID.Compare; for the short lists of a configuration     *)
(* sort.Sort is its insertion sort, which moves an element left only past     *)
(* strictly greater ones.                                                     *)

RECURSIVE SortByID(_)
SortByID(l) ==
    IF Len(l) <= 1 THEN l
    ELSE LET p == SortByID(SubSeq(l, 1, Len(l) - 1))
             x == l[Len(l)]
             k == Cardinality({i \in DOMAIN p : ~(x.DeviceID < p[i].DeviceID)})
         IN  SubSeq(p, 1, k) \o <<x>> \o SubSeq(p, k + 1, Len(p))

-----------------------------------------------------------------------------
(* The three membership passes of prepare *)

ensureDevicePresent(devices, my) ==
    IF \E i \in DOMAIN devices : devices[i].DeviceID = my
    THEN devices
    ELSE Append(devices, FolderDevice(my, "", <<>>))

\* The loop of ensureExistingDevices: index i (1-based) and count as in the code.
RECURSIVE existingLoop(_, _, _, _)
existingLoop(devices, count, i, existingDevices) ==
    IF i > count THEN SubSeq(devices, 1, count)
    ELSE IF devices[i].DeviceID \notin existingDevices
         THEN existingLoop([devices EXCEPT ![i] = devices[count]], count - 1, i, existingDevices)
         ELSE existingLoop(devices, count, i + 1, existingDevices)

\* A variant that steps past the entry it has just moved into place.
RECURSIVE existingLoopSkipping(_, _, _, _)
existingLoopSkipping(devices, count, i, existingDevices) ==
    IF i > count THEN SubSeq(devices, 1, count)
    ELSE IF devices[i].DeviceID \notin existingDevices
         THEN existingLoopSkipping([devices EXCEPT ![i] = devices[count]], count - 1, i + 1, existingDevices)
         ELSE existingLoopSkipping(devices, count, i + 1, existingDevices)

ensureExistingDevices_Skipping(devices, existingDevices) == existingLoopSkipping(devices, Len(devices), 1, existingDevices)

ensureExistingDevices(devices, existingDevices) == existingLoop(devices, Len(devices), 1, existingDevices)

\* The loop of ensureNoDuplicates, seenDevices being the identifiers kept so far.
RECURSIVE duplicatesLoop(_, _, _, _)
duplicatesLoop(devices, count, i, seenDevices) ==
    IF i > count THEN SubSeq(devices, 1, count)
    ELSE IF devices[i].DeviceID \in seenDevices
         THEN duplicatesLoop([devices EXCEPT ![i] = devices[count]], count - 1, i, seenDevices)
         ELSE duplicatesLoop(devices, count, i + 1, seenDevices \cup {devices[i].DeviceID})

ensureNoDuplicates(devices) == duplicatesLoop(devices, Len(devices), 1, {})

-----------------------------------------------------------------------------
(* prepare, first part: listen addresses, folder identifiers, usage reporting *)

fillNilSlices(o) == IF o.ListenAddress = <<>> THEN [o EXCEPT !.ListenAddress = <<"0.0.0.0:22000">>] ELSE o

\* uniqueStrings collects the strings in a map and ranges over it: the result
\* holds each string once, in an order the runtime picks.
uniqueStrings(ss) == Orders(Range(ss))

\* The loop with the first claimant keeping its identifier.
RECURSIVE checkFolders_KeepFirst(_, _, _, _)
checkFolders_KeepFirst(folders, i, seenFolders, uniqueCounter) ==
    IF i > Len(folders) THEN folders
    ELSE IF folders[i].Path = ""
    THEN checkFolders_KeepFirst([folders EXCEPT ![i].Invalid = "no directory configured"], i + 1, seenFolders, uniqueCounter)
    ELSE LET id == IF folders[i].ID = <<>> THEN <<"default">> ELSE folders[i].ID
             f1 == [folders EXCEPT ![i].ID = id]
         IN  IF id \in DOMAIN seenFolders
             THEN LET c2 == uniqueCounter + 1
                      f3 == [f1 EXCEPT ![i].Invalid = "duplicate folder ID", ![i].ID = Append(id, c2)]
                  IN  checkFolders_KeepFirst(f3, i + 1, seenFolders, c2)
             ELSE checkFolders_KeepFirst(f1, i + 1, (id :> i) @@ seenFolders, uniqueCounter)

\* The loop over cfg.Folders that checks for missing, bad or duplicate folder
\* identifiers.  seenFolders maps an identifier to the index of the folder that
\* claimed it (the code keeps a pointer to it).
RECURSIVE checkFolders(_, _, _, _)
checkFolders(folders, i, seenFolders, uniqueCounter) ==
    IF i > Len(folders) THEN folders
    ELSE IF folders[i].Path = ""
    THEN checkFolders([folders EXCEPT ![i].Invalid = "no directory configured"], i + 1, seenFolders, uniqueCounter)
    ELSE LET id == IF folders[i].ID = <<>> THEN <<"default">> ELSE folders[i].ID
             f1 == [folders EXCEPT ![i].ID = id]
         IN  IF id \in DOMAIN seenFolders
             THEN LET j  == seenFolders[id]
                      same == f1[j].ID = id
                      c1 == IF same THEN uniqueCounter + 1 ELSE uniqueCounter
                      f2 == [f1 EXCEPT ![j].Invalid = "duplicate folder ID", ![j].ID = IF same THEN Append(id, c1) ELSE @]
                      c2 == c1 + 1
                      f3 == [f2 EXCEPT ![i].Invalid = "duplicate folder ID", ![i].ID = Append(id, c2)]
                  IN  checkFolders(f3, i + 1, seenFolders, c2)
             ELSE checkFolders(f1, i + 1, (id :> i) @@ seenFolders, uniqueCounter)

usageReporting(o) == [o EXCEPT !.URAccepted = IF o.Deprecated_URDeclined THEN -1 ELSE @, !.Deprecated_URDeclined = FALSE, !.Deprecated_UREnabled = FALSE]

\* Lines 358-402 of prepare; listen is the order uniqueStrings returned.
prepareFolders(c, listen) == [c EXCEPT !.Options = usageReporting([c.Options EXCEPT !.ListenAddress = listen]), !.Folders = checkFolders(c.Folders, 1, <<>>, 0)]

-----------------------------------------------------------------------------
(* The migration chain *)

\* All devices embedded in the repositories, in document order.
RECURSIVE embeddedNodes(_)
embeddedNodes(repos) == IF repos = <<>> THEN <<>> ELSE Head(repos).Deprecated_Nodes \o embeddedNodes(Tail(repos))

\* The last embedded device of an identifier, as a map written without the check.
firstNode_Last(nodes, id) == nodes[CHOOSE i \in DOMAIN nodes : nodes[i].DeviceID = id /\ \A j \in (i + 1)..Len(nodes) : nodes[j].DeviceID # id]

\* The map devices of convertV1V2: the first embedded device of each identifier.
firstNode(nodes, id) == nodes[CHOOSE i \in DOMAIN nodes : nodes[i].DeviceID = id /\ \A j \in 1..(i - 1) : nodes[j].DeviceID # id]

\* The devices convertV1V2 appends.  The code ranges over its map in an order the
\* runtime picks and sorts afterwards; the identifiers of a map are distinct, so
\* the sorted list does not depend on that order and they are taken ascending.
RECURSIVE collectedDevices(_, _)
collectedDevices(nodes, ids) ==
    IF ids = {} THEN <<>>
    ELSE LET id == CHOOSE x \in ids : \A y \in ids : x <= y
             n  == firstNode(nodes, id)
         IN  <<Device(n.DeviceID, n.Deprecated_Name, n.Deprecated_Addresses, FALSE)>> \o collectedDevices(nodes, ids \ {id})

convertV1V2(c) ==
    LET nodes == embeddedNodes(c.Deprecated_Repositories)
        repos == [i \in DOMAIN c.Deprecated_Repositories |->
                    [c.Deprecated_Repositories[i] EXCEPT
                        !.ReadOnly = c.Options.Deprecated_ReadOnly,
                        !.Deprecated_Nodes = [j \in DOMAIN @ |-> FolderDevice(@[j].DeviceID, "", <<>>)]]]
    IN  [c EXCEPT !.Deprecated_Repositories = repos,
                  !.Deprecated_Nodes = SortByID(@ \o collectedDevices(nodes, IDsOf(nodes))),
                  !.GUI.Address = c.Options.Deprecated_GUIAddress,
                  !.GUI.Enabled = c.Options.Deprecated_GUIEnabled,
                  !.Options.Deprecated_ReadOnly = FALSE,
                  !.Options.Deprecated_GUIEnabled = FALSE,
                  !.Options.Deprecated_GUIAddress = "",
                  !.Version = 2]

convertV2V3(c) ==
    [c EXCEPT !.Deprecated_Nodes = [i \in DOMAIN @ |-> [@[i] EXCEPT !.Compression = TRUE]],
              !.Options.GlobalAnnServer = IF @ = "announce.syncthing.net:22025" THEN "announce.syncthing.net:22026" ELSE @,
              !.Version = 3]

\* The second loop of convertV3V4 clears the name and addresses of rncfg, a copy
\* of the folder's device entry; the entry itself is not written.
convertV3V4(c) ==
    [c EXCEPT !.Deprecated_Repositories = [i \in DOMAIN @ |-> [@[i] EXCEPT !.RescanIntervalS = c.Options.Deprecated_RescanIntervalS]],
              !.Options.Deprecated_RescanIntervalS = 0,
              !.Version = 4]

convertV4V5(c) ==
    [c EXCEPT !.Devices = c.Deprecated_Nodes,
              !.Folders = [i \in DOMAIN c.Deprecated_Repositories |->
                              [c.Deprecated_Repositories[i] EXCEPT
                                  !.Path = c.Deprecated_Repositories[i].Deprecated_Directory,
                                  !.Deprecated_Directory = "",
                                  !.Devices = c.Deprecated_Repositories[i].Deprecated_Nodes,
                                  !.Deprecated_Nodes = <<>>]],
              !.Deprecated_Nodes = <<>>,
              !.Deprecated_Repositories = <<>>,
              !.Version = 5]

-----------------------------------------------------------------------------
(* prepare, last part: password, devices, membership, addresses *)

\* The test without the look at the leading character.
needsHash_Always(password) == Len(password) > 0

needsHash(password) == Len(password) > 0 /\ password[1] # "$"

\* bcrypt.GenerateFromPassword: the hash of a password, which starts with "$".
bcryptHash(password) == <<"$">> \o password

\* Lines 424-432; ok tells whether GenerateFromPassword returned without error.
hashPassword(c, ok) == IF needsHash(c.GUI.Password) /\ ok THEN [c EXCEPT !.GUI.Password = bcryptHash(@)] ELSE c

existingDevicesOf(c, my) == {my} \cup IDsOf(c.Devices)

\* Lines 441-450: the local device is appended when absent, then the list sorted.
ensureMe(devices, my) ==
    SortByID(IF \E i \in DOMAIN devices : devices[i].DeviceID = my
             THEN devices
             ELSE Append(devices, Device(my, Hostname, <<>>, FALSE)))

\* Lines 453-458, for one folder.
membership(devices, my, existingDevices) == SortByID(ensureNoDuplicates(ensureExistingDevices(ensureDevicePresent(devices, my), existingDevices)))

\* The test asking only whether the list is empty or holds an empty string.
dynamicAddresses_AnyEmpty(addresses) == IF Len(addresses) = 0 \/ (\E k \in DOMAIN addresses : addresses[k] = "") THEN <<"dynamic">> ELSE addresses

\* Lines 460-466, for one device.
dynamicAddresses(addresses) == IF Len(addresses) = 0 \/ (Len(addresses) = 1 /\ addresses[1] = "") THEN <<"dynamic">> ELSE addresses

\* Lines 434-466 of prepare.
prepareDevices(c, my) ==
    LET existingDevices == existingDevicesOf(c, my)
        devices == ensureMe(c.Devices, my)
    IN  [c EXCEPT !.Devices = [i \in DOMAIN devices |-> [devices[i] EXCEPT !.Addresses = dynamicAddresses(@)]],
                  !.Folders = [i \in DOMAIN @ |-> [@[i] EXCEPT !.Devices = membership(@, my, existingDevices)]]]

-----------------------------------------------------------------------------
(* The document on disk: xml.Encoder.Encode and xml.Decoder.Decode.          *)
(* Invalid is tagged xml:"-" and is not written; a decoded folder has the    *)
(* zero Invalid.  A document without a gui element leaves the GUI defaults.  *)

encodeFolder(f) == [ID |-> f.ID, Path |-> f.Path, Devices |-> f.Devices, ReadOnly |-> f.ReadOnly, RescanIntervalS |-> f.RescanIntervalS, Deprecated_Directory |-> f.Deprecated_Directory, Deprecated_Nodes |-> f.Deprecated_Nodes]

decodeFolder(d) == [ID |-> d.ID, Path |-> d.Path, Devices |-> d.Devices, ReadOnly |-> d.ReadOnly, RescanIntervalS |-> d.RescanIntervalS, Invalid |-> "", Deprecated_Directory |-> d.Deprecated_Directory, Deprecated_Nodes |-> d.Deprecated_Nodes]

Encode(c) ==
    [Version |-> c.Version,
     Folders |-> [i \in DOMAIN c.Folders |-> encodeFolder(c.Folders[i])],
     Devices |-> c.Devices,
     GUI |-> c.GUI,
     Options |-> c.Options,
     Deprecated_Repositories |-> [i \in DOMAIN c.Deprecated_Repositories |-> encodeFolder(c.Deprecated_Repositories[i])],
     Deprecated_Nodes |-> c.Deprecated_Nodes]

Decode(d) ==
    [Version |-> d.Version,
     Folders |-> [i \in DOMAIN d.Folders |-> decodeFolder(d.Folders[i])],
     Devices |-> d.Devices,
     GUI |-> IF d.GUI = NoGUI THEN DefaultGUI ELSE d.GUI,
     Options |-> d.Options,
     Deprecated_Repositories |-> [i \in DOMAIN d.Deprecated_Repositories |-> decodeFolder(d.Deprecated_Repositories[i])],
     Deprecated_Nodes |-> d.Deprecated_Nodes]

-----------------------------------------------------------------------------
(* ChangeRequiresRestart *)

\* FolderMap: a later folder of the same identifier overwrites an earlier one.
FolderMap(c) == [id \in {c.Folders[i].ID : i \in DOMAIN c.Folders} |-> c.Folders[CHOOSE i \in DOMAIN c.Folders : c.Folders[i].ID = id /\ \A j \in DOMAIN c.Folders : c.Folders[j].ID = id => j <= i]]

\* m[id] of a Go map: the zero value when the key is absent.
folderAt(m, id) == IF id \in DOMAIN m THEN m[id] ELSE ZeroFolder

\* DeviceMap is only asked for its keys.
DeviceMap(c) == IDsOf(c.Devices)

ChangeRequiresRestart(f, t) ==
    \/ Len(f.Folders) # Len(t.Folders)
    \/ \E id \in DOMAIN FolderMap(f) : FolderMap(f)[id] # folderAt(FolderMap(t), id)
    \/ \E deviceID \in DeviceMap(f) : deviceID \notin DeviceMap(t)
    \/ f.Options # t.Options
    \/ f.GUI # t.GUI

\* The four version checks of prepare (lines 404-422), one after the other.
upgradeV1V2(c) == IF c.Version = 1 THEN convertV1V2(c) ELSE c

\* A step that leaves the document two versions further.
upgradeV2V3_Skipping(c) == IF c.Version = 2 THEN [convertV2V3(c) EXCEPT !.Version = 4] ELSE c

upgradeV2V3(c) == IF c.Version = 2 THEN convertV2V3(c) ELSE c

upgradeV3V4(c) == IF c.Version = 3 THEN convertV3V4(c) ELSE c

upgradeV4V5(c) == IF c.Version = 4 THEN convertV4V5(c) ELSE c

-----------------------------------------------------------------------------
(* The documents a run starts from.  A document has the shape of its schema  *)
(* generation: version 5 holds folder and device elements, versions 1 to 4   *)
(* hold repository and node elements with a directory attribute, and version *)
(* 1 holds devices only inside its repositories (comment at lines 573-575)   *)
(* and its GUI settings in the options.                                      *)

Versions == 1..CurrentVersion

LocalIDs == {1, 2}

\* Folders as written by a user: identifier, path and member devices.
FolderChoices ==
    { [ID |-> <<"a">>, Path |-> "", Edges |-> <<>>],
      [ID |-> <<"a">>, Path |-> "p", Edges |-> <<FolderDevice(2, "", <<>>), FolderDevice(3, "n3", <<"x">>), FolderDevice(2, "", <<>>)>>],
      [ID |-> <<"a">>, Path |-> "", Edges |-> <<FolderDevice(3, "m3", <<>>), FolderDevice(1, "n1", <<"">>)>>],
      [ID |-> <<"a", 2>>, Path |-> "p", Edges |-> <<FolderDevice(1, "", <<>>)>>],
      [ID |-> <<>>, Path |-> "p", Edges |-> <<FolderDevice(3, "", <<>>), FolderDevice(1, "n1", <<"y">>), FolderDevice(3, "", <<>>)>>] }

DeviceChoices ==
    { <<>>,
      <<Device(2, "me", <<"x">>, FALSE)>>,
      <<Device(3, "d3", <<"">>, TRUE), Device(1, "d1", <<>>, FALSE)>>,
      <<Device(2, "me", <<"", "x">>, FALSE), Device(2, "me2", <<>>, FALSE)>> }

docFolder(v, a) ==
    IF v = CurrentVersion
    THEN [ID |-> a.ID, Path |-> a.Path, Devices |-> a.Edges, ReadOnly |-> FALSE, RescanIntervalS |-> 60, Deprecated_Directory |-> "", Deprecated_Nodes |-> <<>>]
    ELSE [ID |-> a.ID, Path |-> "", Devices |-> <<>>, ReadOnly |-> FALSE, RescanIntervalS |-> IF v = 4 THEN 60 ELSE 0, Deprecated_Directory |-> a.Path, Deprecated_Nodes |-> a.Edges]

docOptions(v, rich) ==
    [DefaultOptions EXCEPT
        !.ListenAddress = IF rich THEN <<"l1", "l2", "l1">> ELSE <<>>,
        !.GlobalAnnServer = IF rich THEN "announce.syncthing.net:22025" ELSE @,
        !.Deprecated_URDeclined = rich,
        !.Deprecated_RescanIntervalS = IF v <= 3 THEN 30 ELSE 0,
        !.Deprecated_ReadOnly = (v = 1 /\ rich),
        !.Deprecated_GUIEnabled = (v = 1 /\ ~rich),
        !.Deprecated_GUIAddress = IF v = 1 THEN "0.0.0.0:8081" ELSE ""]

docGUI(v, rich) == IF v = 1 THEN NoGUI ELSE [Enabled |-> ~rich, Address |-> "127.0.0.1:8080", Password |-> IF rich THEN <<"p", "w">> ELSE <<>>]

Document(v, fl, dl, rich) ==
    [Version |-> v,
     Folders |-> IF v = CurrentVersion THEN [i \in DOMAIN fl |-> docFolder(v, fl[i])] ELSE <<>>,
     Devices |-> IF v = CurrentVersion THEN dl ELSE <<>>,
     GUI |-> docGUI(v, rich),
     Options |-> docOptions(v, rich),
     Deprecated_Repositories |-> IF v = CurrentVersion THEN <<>> ELSE [i \in DOMAIN fl |-> docFolder(v, fl[i])],
     Deprecated_Nodes |-> IF v = CurrentVersion THEN <<>> ELSE dl]

\* Every list of up to MaxFolders folders with the default options, and every
\* list of at most one folder with the legacy options set.
Documents ==
    { Document(v, fl, dl, FALSE) : v \in Versions, fl \in SeqUpTo(MaxFolders, FolderChoices), dl \in DeviceChoices }
    \cup { Document(v, fl, dl, TRUE) : v \in Versions, fl \in SeqUpTo(1, FolderChoices), dl \in DeviceChoices }

ValidDocuments == { d \in Documents : d.Version = 1 => d.Deprecated_Nodes = <<>> }

-----------------------------------------------------------------------------
(* State *)

Init ==
    /\ myID \in LocalIDs
    /\ \E f \in {NoFile} \cup {File("complete", d) : d \in ValidDocuments} :
          fs = [p \in Paths |-> IF p = Location THEN f ELSE NoFile]
    /\ cfg = NoCfg
    /\ pc = "boot"
    /\ fd = ""
    /\ saveErr = "none"
    /\ published = 0
    /\ replaced = FALSE
    /\ prevReal = NoFile
    /\ loaded = NoDoc
    /\ entry = NoCfg
    /\ steps = <<>>
    /\ chain = NoCfg
    /\ rounds = 0
    /\ prevCfg = NoCfg
    /\ bcryptFailed = FALSE
    /\ from = NoCfg
    /\ to = NoCfg
    /\ restart = "unset"

saveVars == <<fd, saveErr, published, replaced, prevReal>>

crrVars == <<from, to, restart>>

histVars == <<loaded, entry, steps, chain, rounds, prevCfg, bcryptFailed>>

-----------------------------------------------------------------------------
(* Load and New *)

\* What xml.Decoder.Decode leaves in the defaulted cfg: the document of a
\* completely written file; nothing of a file that was cut short.
readFile(f) == IF f.written = "complete" THEN Decode(f.doc) ELSE DefaultConfiguration

\* Load up to the call of prepare, at start-up or after a successful Save.
Load ==
    /\ \/ pc = "boot"
       \/ pc = "ready" /\ replaced /\ saveErr = "none" /\ rounds < MaxRounds
    /\ fs[Location] # NoFile
    /\ cfg' = readFile(fs[Location])
    /\ loaded' = IF fs[Location].written = "complete" THEN fs[Location].doc ELSE NoDoc
    /\ rounds' = IF pc = "ready" THEN rounds + 1 ELSE rounds
    /\ prevCfg' = cfg
    /\ pc' = "folders"
    /\ steps' = <<>>
    /\ entry' = NoCfg
    /\ chain' = NoCfg
    /\ saveErr' = "none"
    /\ published' = 0
    /\ replaced' = FALSE
    /\ UNCHANGED <<fs, myID, fd, prevReal, bcryptFailed, crrVars>>

\* Load when os.Open fails: the zero Configuration and the error are returned.
LoadMissing ==
    /\ pc = "boot"
    /\ fs[Location] = NoFile
    /\ pc' = "missing"
    /\ UNCHANGED <<fs, myID, cfg, saveVars, histVars, crrVars>>

\* New up to the call of prepare.
New ==
    /\ pc = "missing"
    /\ cfg' = DefaultConfiguration
    /\ pc' = "folders"
    /\ UNCHANGED <<fs, myID, saveVars, histVars, crrVars>>

-----------------------------------------------------------------------------
(* prepare *)

PrepareFolders ==
    /\ pc = "folders"
    /\ \E listen \in uniqueStrings(fillNilSlices(cfg.Options).ListenAddress) :
          cfg' = prepareFolders(cfg, listen)
    /\ entry' = cfg'
    /\ pc' = "v1"
    /\ UNCHANGED <<fs, myID, saveVars, loaded, steps, chain, rounds, prevCfg, bcryptFailed, crrVars>>

UpgradeV1V2 ==
    /\ pc = "v1"
    /\ cfg' = upgradeV1V2(cfg)
    /\ steps' = IF cfg' # cfg THEN Append(steps, 1) ELSE steps
    /\ pc' = "v2"
    /\ UNCHANGED <<fs, myID, saveVars, loaded, entry, chain, rounds, prevCfg, bcryptFailed, crrVars>>

UpgradeV2V3 ==
    /\ pc = "v2"
    /\ cfg' = upgradeV2V3(cfg)
    /\ steps' = IF cfg' # cfg THEN Append(steps, 2) ELSE steps
    /\ pc' = "v3"
    /\ UNCHANGED <<fs, myID, saveVars, loaded, entry, chain, rounds, prevCfg, bcryptFailed, crrVars>>

UpgradeV3V4 ==
    /\ pc = "v3"
    /\ cfg' = upgradeV3V4(cfg)
    /\ steps' = IF cfg' # cfg THEN Append(steps, 3) ELSE steps
    /\ pc' = "v4"
    /\ UNCHANGED <<fs, myID, saveVars, loaded, entry, chain, rounds, prevCfg, bcryptFailed, crrVars>>

UpgradeV4V5 ==
    /\ pc = "v4"
    /\ cfg' = upgradeV4V5(cfg)
    /\ steps' = IF cfg' # cfg THEN Append(steps, 4) ELSE steps
    /\ chain' = cfg'
    /\ pc' = "hash"
    /\ UNCHANGED <<fs, myID, saveVars, loaded, entry, rounds, prevCfg, bcryptFailed, crrVars>>

HashPassword ==
    /\ pc = "hash"
    /\ \E ok \in BOOLEAN :
          /\ ~ok => needsHash(cfg.GUI.Password)
          /\ cfg' = hashPassword(cfg, ok)
          /\ bcryptFailed' = (bcryptFailed \/ ~ok)
    /\ pc' = "devices"
    /\ UNCHANGED <<fs, myID, saveVars, loaded, entry, steps, chain, rounds, prevCfg, crrVars>>

PrepareDevices ==
    /\ pc = "devices"
    /\ cfg' = prepareDevices(cfg, myID)
    /\ pc' = "ready"
    /\ UNCHANGED <<fs, myID, saveVars, histVars, crrVars>>

-----------------------------------------------------------------------------
(* Save.  Each step either succeeds or returns an error, as the operating   *)
(* system decides.                                                          *)

\* osutil.Rename replaces the file at target by the file at source in one step.
Rename(f, source, target) == IF source = target THEN f ELSE [f EXCEPT ![target] = f[source], ![source] = NoFile]

\* os.Create(cfg.Location + ".tmp")
SaveCreate ==
    /\ pc = "ready"
    /\ prevReal' = fs[Location]
    /\ published' = 0
    /\ replaced' = FALSE
    /\ \E ok \in BOOLEAN :
          IF ok
          THEN /\ fs' = [fs EXCEPT ![TmpLocation] = File("empty", NoDoc)]
               /\ fd' = TmpLocation
               /\ saveErr' = "none"
               /\ pc' = "encode"
          ELSE /\ saveErr' = "create"
               /\ pc' = "ready"
               /\ UNCHANGED <<fs, fd>>
    /\ UNCHANGED <<myID, cfg, histVars, crrVars>>

\* e.Encode(cfg); on error the file is closed and the error returned.
SaveEncode ==
    /\ pc = "encode"
    /\ \E ok \in BOOLEAN :
          IF ok
          THEN /\ fs' = [fs EXCEPT ![fd] = File("body", Encode(cfg))]
               /\ pc' = "newline"
               /\ UNCHANGED <<fd, saveErr>>
          ELSE /\ fs' = [fs EXCEPT ![fd] = File("partial", Encode(cfg))]
               /\ fd' = ""
               /\ saveErr' = "encode"
               /\ pc' = "ready"
    /\ UNCHANGED <<myID, cfg, published, replaced, prevReal, histVars, crrVars>>

\* fd.Write([]byte("\n"))
SaveNewline ==
    /\ pc = "newline"
    /\ \E ok \in BOOLEAN :
          IF ok
          THEN /\ fs' = [fs EXCEPT ![fd] = File("complete", @.doc)]
               /\ pc' = "close"
               /\ UNCHANGED <<fd, saveErr>>
          ELSE /\ fd' = ""
               /\ saveErr' = "write"
               /\ pc' = "ready"
               /\ UNCHANGED fs
    /\ UNCHANGED <<myID, cfg, published, replaced, prevReal, histVars, crrVars>>

\* fd.Close()
SaveClose ==
    /\ pc = "close"
    /\ fd' = ""
    /\ \E ok \in BOOLEAN :
          IF ok
          THEN /\ pc' = "rename"
               /\ UNCHANGED saveErr
          ELSE /\ saveErr' = "close"
               /\ pc' = "ready"
    /\ UNCHANGED <<fs, myID, cfg, published, replaced, prevReal, histVars, crrVars>>

\* osutil.Rename(cfg.Location+".tmp", cfg.Location); an error is logged and kept.
SaveRename ==
    /\ pc = "rename"
    /\ \E ok \in BOOLEAN :
          IF ok
          THEN /\ fs' = Rename(fs, TmpLocation, Location)
               /\ replaced' = TRUE
               /\ UNCHANGED saveErr
          ELSE /\ saveErr' = "rename"
               /\ UNCHANGED <<fs, replaced>>
    /\ pc' = "publish"
    /\ UNCHANGED <<myID, cfg, fd, published, prevReal, histVars, crrVars>>

\* events.Default.Log(events.ConfigSaved, cfg); return err
SavePublish ==
    /\ pc = "publish"
    /\ published' = published + 1
    /\ pc' = "ready"
    /\ UNCHANGED <<fs, myID, cfg, fd, saveErr, replaced, prevReal, histVars, crrVars>>

-----------------------------------------------------------------------------

Next ==
    \/ Load
    \/ LoadMissing
    \/ New
    \/ PrepareFolders
    \/ UpgradeV1V2
    \/ UpgradeV2V3
    \/ UpgradeV3V4
    \/ UpgradeV4V5
    \/ HashPassword
    \/ PrepareDevices
    \/ SaveCreate
    \/ SaveEncode
    \/ SaveNewline
    \/ SaveClose
    \/ SaveRename
    \/ SavePublish

Spec == Init /\ [][Next]_vars

-----------------------------------------------------------------------------
(* ChangeRequiresRestart as its callers use it: from is a loaded             *)
(* configuration, to is from after one edit of the document.                *)

\* Load on a document, as one function: Decode, then prepare with the listen
\* addresses in one of the orders uniqueStrings may return.
prepared(d, my) ==
    LET c0 == Decode(d)
        c1 == prepareFolders(c0, CHOOSE l \in uniqueStrings(fillNilSlices(c0.Options).ListenAddress) : TRUE)
        c5 == upgradeV4V5(upgradeV3V4(upgradeV2V3(upgradeV1V2(c1))))
    IN  prepareDevices(hashPassword(c5, TRUE), my)

RemoveAt(l, i) == SubSeq(l, 1, i - 1) \o SubSeq(l, i + 1, Len(l))

Edits(c) ==
    {c}
    \cup { [c EXCEPT !.Folders = RemoveAt(@, i)] : i \in DOMAIN c.Folders }
    \cup { [c EXCEPT !.Folders[i].ReadOnly = ~@] : i \in DOMAIN c.Folders }
    \cup { [c EXCEPT !.Folders[i].ID = <<"renamed">>] : i \in DOMAIN c.Folders }
    \cup { [c EXCEPT !.Devices = RemoveAt(@, i)] : i \in DOMAIN c.Devices }
    \cup { [c EXCEPT !.Devices[i].Name = "renamed"] : i \in DOMAIN c.Devices }
    \cup { [c EXCEPT !.Devices = Append(@, Device(4, "d4", <<"dynamic">>, TRUE))],
           [c EXCEPT !.Options.URAccepted = @ + 1],
           [c EXCEPT !.GUI.Enabled = ~@] }

CrrDocuments == { d \in ValidDocuments : d.Version >= 4 /\ d.Options.ListenAddress = <<>> }

InitCRR ==
    /\ myID \in LocalIDs
    /\ \E d \in CrrDocuments :
          /\ from = prepared(d, myID)
          /\ to \in Edits(prepared(d, myID))
    /\ restart = "unset"
    /\ fs = [p \in Paths |-> NoFile]
    /\ cfg = NoCfg
    /\ pc = "crr"
    /\ fd = ""
    /\ saveErr = "none"
    /\ published = 0
    /\ replaced = FALSE
    /\ prevReal = NoFile
    /\ loaded = NoDoc
    /\ entry = NoCfg
    /\ steps = <<>>
    /\ chain = NoCfg
    /\ rounds = 0
    /\ prevCfg = NoCfg
    /\ bcryptFailed = FALSE

Compare ==
    /\ pc = "crr"
    /\ restart = "unset"
    /\ restart' = IF ChangeRequiresRestart(from, to) THEN "true" ELSE "false"
    /\ UNCHANGED <<fs, myID, cfg, pc, saveVars, histVars, from, to>>

NextCRR == Compare

SpecCRR == InitCRR /\ [][NextCRR]_vars

-----------------------------------------------------------------------------
(* Properties *)

Prepared == pc = "ready"

\* C1: after prepare the root device list holds exactly one entry of the local
\* identity, and so does the membership list of every folder, whatever the
\* document listed.
C1_LocalIdentityOnce ==
    Prepared => /\ Count(cfg.Devices, myID) = 1
                /\ \A i \in DOMAIN cfg.Folders : Count(cfg.Folders[i].Devices, myID) = 1

\* C2: after prepare, for a document of any version 1 to 5, no two folders
\* whose Invalid is empty have the same identifier.
C2_ValidFolderIDsUnique ==
    Prepared => \A i, j \in DOMAIN cfg.Folders :
                    (i < j /\ cfg.Folders[i].Invalid = "" /\ cfg.Folders[j].Invalid = "") => cfg.Folders[i].ID # cfg.Folders[j].ID

\* C3: after prepare every membership edge of every folder names a device of
\* the root device list; the devices a folder names are those it named before
\* (and the local identity) that are declared, no more and no fewer.
C3_EdgesReferenceDevices ==
    Prepared => \A i \in DOMAIN cfg.Folders :
                    /\ IDsOf(cfg.Folders[i].Devices) \subseteq IDsOf(cfg.Devices)
                    /\ IDsOf(cfg.Folders[i].Devices) = (IDsOf(chain.Folders[i].Devices) \cup {myID}) \cap (IDsOf(chain.Devices) \cup {myID})

\* A folder lost a stale edge and kept an edge to a declared device other than
\* the local one.
C3_Witness ==
    /\ Prepared
    /\ \E i \in DOMAIN cfg.Folders :
          /\ IDsOf(chain.Folders[i].Devices) \ IDsOf(cfg.Devices) # {}
          /\ IDsOf(cfg.Folders[i].Devices) \ {myID} # {}

-----------------------------------------------------------------------------

RealFile == fs[Location]

InSave == pc \in {"encode", "newline", "close", "rename", "publish"}

\* Save has returned and no Load has followed yet.
SaveReturned == pc = "ready" /\ (replaced \/ saveErr # "none")

\* C4: in every state during and after Save, whatever step failed, the file at
\* the real location is completely written and is the previous file or the new
\* document; when create, encode, write or close fail it is the previous file.
C4_RealFileNeverPartial ==
    /\ RealFile.written \in {"absent", "complete"}
    /\ (InSave \/ SaveReturned) => (RealFile = prevReal \/ RealFile = File("complete", Encode(cfg)))
    /\ (SaveReturned /\ saveErr \in {"create", "encode", "write", "close"}) => (RealFile = prevReal /\ ~replaced)

\* Save returned the encoder's error with the temporary file cut short, over a
\* previous file that differs from the new document.
C4_Witness ==
    /\ SaveReturned
    /\ saveErr = "encode"
    /\ fs[TmpLocation].written = "partial"
    /\ prevReal.written = "complete"
    /\ prevReal.doc # Encode(cfg)

\* C5: Save publishes ConfigSaved exactly once when the replace succeeded and
\* not at all when a step failed, the rename included; a publication follows a
\* successful replace of the same call.
C5_PublishedIffReplaced ==
    /\ SaveReturned => published = (IF saveErr = "none" THEN 1 ELSE 0)
    /\ published > 0 => replaced

Migrated == pc \in {"hash", "devices", "ready"}

InChain == pc \in {"v1", "v2", "v3", "v4"}

\* C6: a document entering prepare at version v in 1..5 gets exactly the steps
\* v, v+1, .., 4, in that order; the version never decreases and ends at 5; at
\* version 5 no step runs and the folder and device lists are not replaced.
C6_ChainInOrder ==
    /\ [](Migrated => /\ steps = [k \in 1..(CurrentVersion - entry.Version) |-> entry.Version + k - 1]
                      /\ cfg.Version = CurrentVersion
                      /\ entry.Version = CurrentVersion => (steps = <<>> /\ chain.Folders = entry.Folders /\ chain.Devices = entry.Devices))
    /\ [][InChain => /\ cfg'.Version >= cfg.Version
                     /\ steps' = steps \/ (steps' = Append(steps, cfg.Version) /\ cfg'.Version = cfg.Version + 1)]_vars

\* A version-1 document went through all four steps.
C6_Witness == pc = "ready" /\ loaded.Version = 1 /\ entry.Version = 1 /\ steps = <<1, 2, 3, 4>> /\ cfg.Version = 5

\* The devices embedded in the repositories of a document, in document order.
EmbeddedIn(d) == embeddedNodes(d.Deprecated_Repositories)

\* C7: the chain turns a version-1 document into a version-5 one where every
\* embedded device is once in the root list with the name and addresses of its
\* first occurrence, folders hold bare edges to the same devices, every device
\* has Compression set and the GUI has the old guiAddress and guiEnabled.
C7_FullChainFromV1 ==
    (Migrated /\ loaded.Version = 1) =>
        LET nodes == EmbeddedIn(loaded)
        IN  /\ chain.Version = CurrentVersion
            /\ \A n \in DOMAIN nodes :
                  /\ Count(chain.Devices, nodes[n].DeviceID) = 1
                  /\ (\A m \in 1..(n - 1) : nodes[m].DeviceID # nodes[n].DeviceID) =>
                        \E i \in DOMAIN chain.Devices :
                            /\ chain.Devices[i].DeviceID = nodes[n].DeviceID
                            /\ chain.Devices[i].Name = nodes[n].Deprecated_Name
                            /\ chain.Devices[i].Addresses = nodes[n].Deprecated_Addresses
            /\ Len(chain.Folders) = Len(loaded.Deprecated_Repositories)
            /\ \A i \in DOMAIN chain.Folders :
                  /\ Len(chain.Folders[i].Devices) = Len(loaded.Deprecated_Repositories[i].Deprecated_Nodes)
                  /\ \A j \in DOMAIN chain.Folders[i].Devices :
                        chain.Folders[i].Devices[j] = FolderDevice(loaded.Deprecated_Repositories[i].Deprecated_Nodes[j].DeviceID, "", <<>>)
            /\ \A i \in DOMAIN chain.Devices : chain.Devices[i].Compression
            /\ chain.GUI.Address = loaded.Options.Deprecated_GUIAddress
            /\ chain.GUI.Enabled = loaded.Options.Deprecated_GUIEnabled

\* A version-1 document with a device embedded twice under different names.
C7_Witness ==
    /\ Migrated
    /\ loaded.Version = 1
    /\ \E n, m \in DOMAIN EmbeddedIn(loaded) :
          /\ m < n
          /\ EmbeddedIn(loaded)[m].DeviceID = EmbeddedIn(loaded)[n].DeviceID
          /\ EmbeddedIn(loaded)[m].Deprecated_Name # EmbeddedIn(loaded)[n].Deprecated_Name
    /\ \E i \in DOMAIN chain.Devices : chain.Devices[i].Name # ""

\* The content of a configuration; the order of the listen addresses, which
\* uniqueStrings leaves open, is not part of it.
Content(c) == [c EXCEPT !.Options.ListenAddress = Range(@)]

\* C8: Load, then Save and Load repeated, reaches a fixed point: from round
\* MaxFolders + 1 on, a Save followed by a Load returns a version-5
\* configuration with the content it had before (password hashing not failing).
C8_RoundTripFixedPoint ==
    (Prepared /\ rounds >= MaxFolders + 1 /\ ~bcryptFailed) =>
        /\ cfg.Version = CurrentVersion
        /\ Content(cfg) = Content(prevCfg)

\* The last round was reached with a folder whose identifier an earlier round
\* had disambiguated and which is valid by now.
C8_Witness ==
    /\ Prepared
    /\ rounds = MaxFolders + 1
    /\ ~bcryptFailed
    /\ \E i \in DOMAIN cfg.Folders : Len(cfg.Folders[i].ID) >= 2 /\ cfg.Folders[i].ID[1] = "default" /\ cfg.Folders[i].Invalid = ""

FolderChanged(f, t) == \E i \in DOMAIN f.Folders : ~\E j \in DOMAIN t.Folders : t.Folders[j] = f.Folders[i]

MustRestart(f, t) ==
    \/ Len(f.Folders) # Len(t.Folders)
    \/ FolderChanged(f, t)
    \/ IDsOf(f.Devices) \ IDsOf(t.Devices) # {}
    \/ f.Options # t.Options
    \/ f.GUI # t.GUI

\* from and to differ at most in what is said of the devices of from, or in
\* devices that only to has.
OnlyDevicesDiffer(f, t) ==
    /\ f.Folders = t.Folders
    /\ f.Options = t.Options
    /\ f.GUI = t.GUI
    /\ IDsOf(f.Devices) \subseteq IDsOf(t.Devices)

\* C9: ChangeRequiresRestart is true whenever the folder count differs, a
\* folder of from is not in to as it was, a device of from is gone, or the
\* options or the GUI differ; it is false when only device names differ or
\* devices were added.
C9_RestartDecision ==
    restart # "unset" =>
        /\ MustRestart(from, to) => restart = "true"
        /\ OnlyDevicesDiffer(from, to) => restart = "false"

TwoUnnamedFolders ==
    /\ Prepared
    /\ loaded.Version = CurrentVersion
    /\ Len(loaded.Folders) = 2
    /\ \A i \in 1..2 : loaded.Folders[i].Path # "" /\ loaded.Folders[i].ID = <<>>

\* C10 as stated: two version-5 folders with a path and no identifier come out
\* as "default" (the first) and "default~1" (the second).
C10_FirstKeepsDefault ==
    TwoUnnamedFolders => cfg.Folders[1].ID = <<"default">> /\ cfg.Folders[2].ID = <<"default", 1>>

\* C10 amended: they come out as "default~1" (the first) and "default~2" (the
\* second), both marked "duplicate folder ID".
C10_BothDisambiguated ==
    TwoUnnamedFolders =>
        /\ cfg.Folders[1].ID = <<"default", 1>>
        /\ cfg.Folders[2].ID = <<"default", 2>>
        /\ \A i \in 1..2 : cfg.Folders[i].Invalid = "duplicate folder ID"

C10_Witness == TwoUnnamedFolders /\ cfg.Folders[1].ID # cfg.Folders[2].ID

-----------------------------------------------------------------------------

\* The entries of a root device list, each with its address list as a whole.
RootEntries(devices) == {<<devices[i].DeviceID, devices[i].Name, devices[i].Compression, devices[i].Addresses>> : i \in DOMAIN devices}

\* The address list a device is to end with, given the one it had.
ExpectedAddresses(a) == IF a = <<>> \/ a = <<"">> THEN <<"dynamic">> ELSE a

\* The devices given to the last part of prepare: those the migration chain
\* left, and the local device with no address when the list lacks it.
DevicesBefore ==
    {<<chain.Devices[i].DeviceID, chain.Devices[i].Name, chain.Devices[i].Compression, chain.Devices[i].Addresses>> : i \in DOMAIN chain.Devices}
    \cup (IF myID \in IDsOf(chain.Devices) THEN {} ELSE {<<myID, Hostname, FALSE, <<>>>>})

\* C11: after prepare every device of the root list whose address list was
\* empty or exactly one empty string has the address list <<"dynamic">>, and
\* every other device has its address list as it was, same entries, same order
\* (a list of several entries with an empty string among them included).
C11_DynamicAddresses ==
    Prepared =>
        /\ RootEntries(cfg.Devices) = {<<e[1], e[2], e[3], ExpectedAddresses(e[4])>> : e \in DevicesBefore}
        /\ Len(cfg.Devices) = Len(chain.Devices) + (IF myID \in IDsOf(chain.Devices) THEN 0 ELSE 1)

\* The document listed a device with several addresses, an empty string among
\* them, next to a device with no address at all.
C11_Witness ==
    /\ Prepared
    /\ \E i, j \in DOMAIN chain.Devices :
          /\ Len(chain.Devices[i].Addresses) > 1
          /\ "" \in Range(chain.Devices[i].Addresses)
          /\ chain.Devices[j].Addresses = <<>>
    /\ \E i \in DOMAIN cfg.Devices : Len(cfg.Devices[i].Addresses) > 1 /\ "" \in Range(cfg.Devices[i].Addresses)
    /\ \E j \in DOMAIN cfg.Devices : cfg.Devices[j].Addresses = <<"dynamic">>

-----------------------------------------------------------------------------

\* convertV3V4 has just run on a document that was entered at version 2 or 3.
AfterV3V4 == pc = "v4" /\ 3 \in Range(steps) /\ loaded.Version \in {2, 3}

\* The rescan interval half: every folder has the former node-wide interval,
\* which is reset to 0.
RescanMigrated ==
    AfterV3V4 =>
        /\ \A i \in DOMAIN cfg.Deprecated_Repositories : cfg.Deprecated_Repositories[i].RescanIntervalS = entry.Options.Deprecated_RescanIntervalS
        /\ cfg.Options.Deprecated_RescanIntervalS = 0

\* C12: after the 3-to-4 step has run on a document entered at version 2 or 3,
\* every membership edge of every folder has an empty deprecated name and an
\* empty deprecated address list, every folder's rescan interval is the former
\* node-wide interval, and that interval is reset to 0.
C12_EdgesScrubbed ==
    AfterV3V4 =>
        /\ \A i \in DOMAIN cfg.Deprecated_Repositories : \A j \in DOMAIN cfg.Deprecated_Repositories[i].Deprecated_Nodes :
              /\ cfg.Deprecated_Repositories[i].Deprecated_Nodes[j].Deprecated_Name = ""
              /\ cfg.Deprecated_Repositories[i].Deprecated_Nodes[j].Deprecated_Addresses = <<>>
        /\ \A i \in DOMAIN cfg.Deprecated_Repositories : cfg.Deprecated_Repositories[i].RescanIntervalS = entry.Options.Deprecated_RescanIntervalS
        /\ cfg.Options.Deprecated_RescanIntervalS = 0

=============================================================================
